---- MODULE Spec2Model ----
(***************************************************************************)
(* Soft Actor-Critic model of mlagents/trainers/sac/models.py:              *)
(* the trainable-variable collection built by SACNetwork / SACModel, the    *)
(* update operations of create_sac_optimizers executed by a session run,    *)
(* the normalization mirror, and the losses of create_losses.               *)
(*                                                                          *)
(* Tensors of real numbers are modelled with exact rationals <<n, d>>.      *)
(* Every trainable variable is modelled by one element of its tensor (all   *)
(* update rules are element-wise).                                          *)
(***************************************************************************)
EXTENDS Integers, Sequences, FiniteSets, TLC

\* ------------------------------------------------------------------------
\* Evaluation order: Eval1 / Eval2 evaluate their operands once and hand the
\* values to F (as a tensor op receives the values of its input tensors)
\* ------------------------------------------------------------------------
Eval1(F(_), a) == CHOOSE r \in {F(x) : x \in {a}} : TRUE
Eval2(F(_, _), a, b) == CHOOSE r \in {F(x, y) : x \in {a}, y \in {b}} : TRUE

\* ------------------------------------------------------------------------
\* Exact rational arithmetic (stands for float32 tensor arithmetic)
\* ------------------------------------------------------------------------
Abs(x) == IF x < 0 THEN -x ELSE x

RECURSIVE Gcd(_, _)
Gcd(a, b) == IF b = 0 THEN a ELSE Gcd(b, a % b)

Norm(n, d) ==
    LET F(x, y) ==
            LET g == Gcd(Abs(x), Abs(y))
                s == IF y < 0 THEN -1 ELSE 1
            IN  IF x = 0 THEN <<0, 1>> ELSE <<(s * x) \div g, (s * y) \div g>>
    IN  Eval2(F, n, d)

Q(n) == <<n, 1>>
Zero == <<0, 1>>
One == <<1, 1>>
Half == <<1, 2>>

RAdd(a, b) ==
    LET F(x, y) == Norm(x[1] * y[2] + y[1] * x[2], x[2] * y[2]) IN Eval2(F, a, b)

RNeg(a) == LET F(x) == <<-x[1], x[2]>> IN Eval1(F, a)
RSub(a, b) == RAdd(a, RNeg(b))
RMul(a, b) == LET F(x, y) == Norm(x[1] * y[1], x[2] * y[2]) IN Eval2(F, a, b)
RDivInt(a, k) == LET F(x, y) == Norm(x[1], x[2] * y) IN Eval2(F, a, k)
RLess(a, b) == LET F(x, y) == x[1] * y[2] < y[1] * x[2] IN Eval2(F, a, b)
RMin(a, b) == LET F(x, y) == IF RLess(y, x) THEN y ELSE x IN Eval2(F, a, b)
RSq(a) == LET F(x) == RMul(x, x) IN Eval1(F, a)

RECURSIVE RSum(_)
RSum(s) ==
    LET F(x) == IF x = <<>> THEN Zero ELSE RAdd(Head(x), RSum(Tail(x))) IN Eval1(F, s)

\* tf.reduce_mean over a flat list of elements
RMean(s) == LET F(x) == RDivInt(RSum(x), Len(x)) IN Eval1(F, s)

RECURSIVE Flatten(_)
Flatten(ss) == IF ss = <<>> THEN <<>> ELSE Head(ss) \o Flatten(Tail(ss))

RECURSIVE IntSum(_)
IntSum(s) == IF s = <<>> THEN 0 ELSE Head(s) + IntSum(Tail(s))

\* ------------------------------------------------------------------------
\* Bounds
\* ------------------------------------------------------------------------
MaxRuns == 3
MaxJointRuns == 2
MaxBatch == 2

\* ------------------------------------------------------------------------
\* Configurations (constructor arguments of SACModel)
\* ------------------------------------------------------------------------
num_layers == 1

Taus == {Zero, Half, One}

AllStreams == <<"extrinsic", "curiosity">>
AllGammas == << <<9, 10>>, <<1, 2>> >>

\* d: discrete action space; v: number of visual observations; ns: reward streams
Config(d, v, ns) ==
    [discrete |-> d, use_recurrent |-> FALSE, normalize |-> TRUE, num_vis |-> v,
     num_layers |-> num_layers,
     stream_names |-> SubSeq(AllStreams, 1, ns), gammas |-> SubSeq(AllGammas, 1, ns),
     act_size |-> IF d THEN <<2, 3>> ELSE <<2>>]

Configs == {Config(FALSE, 0, 1), Config(TRUE, 0, 1), Config(FALSE, 1, 1), Config(TRUE, 1, 1)}

LossConfigs == {Config(d, 0, ns) : d \in BOOLEAN, ns \in 1..2}

\* ------------------------------------------------------------------------
\* Trainable-variable names: a name is the sequence of its scope components
\* ------------------------------------------------------------------------
IsPrefix(p, n) == Len(p) <= Len(n) /\ SubSeq(n, 1, Len(p)) = p

\* tf.get_collection(TRAINABLE_VARIABLES, scope): the variables of the
\* collection whose name starts with scope, in creation order
get_vars(scope, coll) ==
    LET InScope(n) == IsPrefix(scope, n) IN SelectSeq(coll, InScope)

\* the parameters a dense layer creates (kernel and bias taken together)
Dense(scope, name, use_bias) == << scope \o <<name>> >>

EncoderLayers(scope, n) ==
    Flatten([i \in 1..n |-> Dense(scope, "hidden_" \o ToString(i - 1), TRUE)])

RecurrentVars(scope, c) ==
    IF c.use_recurrent THEN Dense(scope, "lstm", TRUE) ELSE <<>>

\* visual encoders of one observation stream (none for vector observations:
\* the stream is built with 0 hidden layers)
ObservationStream(net, stream_scope, i, c) ==
    Flatten([j \in 1..c.num_vis |->
        Dense(<<net>> \o stream_scope,
              "main_graph_" \o ToString(i) \o "_encoder" \o ToString(j - 1), TRUE)])

StreamHeads(scope, c, suffix) ==
    Flatten([k \in 1..Len(c.stream_names) |->
        Dense(scope, c.stream_names[k] \o suffix, TRUE)])

create_sac_value_head(scope, c) ==
    EncoderLayers(scope, c.num_layers) \o RecurrentVars(scope, c)
        \o StreamHeads(scope, c, "_value")

QEncoding(scope, which, c) ==
    LET s == scope \o <<which \o "_encoding">> IN
    EncoderLayers(s \o <<which \o "_encoder">>, c.num_layers)
        \o RecurrentVars(s, c) \o StreamHeads(s, c, "_" \o which)

create_q_heads(scope, c) == QEncoding(scope, "q1", c) \o QEncoding(scope, "q2", c)

create_cc_actor(net, c) ==
    LET scope == <<net, "policy">> IN
    EncoderLayers(scope, c.num_layers) \o RecurrentVars(scope, c)
        \o Dense(scope, "mu", TRUE) \o Dense(scope, "log_std", TRUE)

create_dc_actor(net, c) ==
    LET scope == <<net, "policy">> IN
    EncoderLayers(scope, c.num_layers) \o RecurrentVars(scope, c)
        \o Flatten([b \in 1..Len(c.act_size) |->
              Dense(scope, IF b = 1 THEN "dense" ELSE "dense_" \o ToString(b - 1), FALSE)])

Actor(net, c) == IF c.discrete THEN create_dc_actor(net, c) ELSE create_cc_actor(net, c)

share_ac_cnn_on == TRUE

share_ac_cnn == FALSE

\* ------------------------------------------------------------------------
\* SACNetwork: the variables a network creates and the groups it records.
\* coll is the trainable collection before the network is built.
\* ------------------------------------------------------------------------
create_cc_critic(net, coll, create_qs, c) ==
    LET scope == <<net, "critic">>
        coll1 == coll \o create_sac_value_head(scope \o <<"value">>, c)
        coll2 == IF create_qs THEN coll1 \o create_q_heads(scope \o <<"q">>, c) ELSE coll1
    IN  [coll |-> coll2,
         value_vars |-> get_vars(scope \o <<"value">>, coll1),
         q_vars |-> IF create_qs THEN get_vars(scope \o <<"q">>, coll2) ELSE <<>>,
         critic_vars |-> get_vars(scope, coll2)]

create_dc_critic(net, coll, create_qs, c) ==
    LET scope == <<net, "critic">>
        coll1 == coll \o create_sac_value_head(scope \o <<"value">>, c)
        coll2 == IF create_qs THEN coll1 \o create_q_heads(scope \o <<"q">>, c) ELSE coll1
    IN  [coll |-> coll2,
         value_vars |-> get_vars(scope \o <<"value">>, coll1),
         q_vars |-> IF create_qs THEN get_vars(scope, coll2) ELSE <<>>,
         critic_vars |-> get_vars(scope, coll2)]

Critic(net, coll, create_qs, c) ==
    IF c.discrete THEN create_dc_critic(net, coll, create_qs, c)
    ELSE create_cc_critic(net, coll, create_qs, c)

SACNetwork(c, is_target, coll) ==
    IF is_target
    THEN LET net == "target_network"
             coll1 == coll \o ObservationStream(net, <<"critic", "value">>, 0, c)
             cr == Critic(net, coll1, FALSE, c)
         IN  [coll |-> cr.coll, value_vars |-> cr.value_vars, q_vars |-> cr.q_vars,
              critic_vars |-> cr.critic_vars, policy_vars |-> <<>>]
    ELSE LET net == "policy_network"
             coll1 == IF share_ac_cnn
                      THEN coll \o ObservationStream(net, <<"critic", "value">>, 0, c)
                      ELSE coll \o ObservationStream(net, <<"policy">>, 0, c)
                                \o ObservationStream(net, <<"critic", "value">>, 1, c)
             coll2 == coll1 \o Actor(net, c)
             pv == get_vars(<<net, "policy">>, coll2)
             cr == Critic(net, coll2, TRUE, c)
         IN  [coll |-> cr.coll, value_vars |-> cr.value_vars, q_vars |-> cr.q_vars,
              critic_vars |-> cr.critic_vars,
              policy_vars |-> IF share_ac_cnn
                              THEN pv \o get_vars(<<net, "critic", "value",
                                                    "main_graph_0_encoder0">>, cr.coll)
                              ELSE pv]

policy_network(c) == SACNetwork(c, FALSE, <<>>)
target_network(c) == SACNetwork(c, TRUE, policy_network(c).coll)

log_ent_coef == <<"log_ent_coef">>

\* every trainable variable of the graph, in creation order
Trainable(c) == target_network(c).coll \o <<log_ent_coef>>

Range(s) == {s[i] : i \in 1..Len(s)}

Min2(a, b) == IF a < b THEN a ELSE b

ValuePairsSwapped(c) ==
    LET t == target_network(c).value_vars
        p == policy_network(c).value_vars
    IN  [k \in 1..Min2(Len(t), Len(p)) |-> [target |-> p[k], source |-> t[k]]]

\* zip(target_network.value_vars, policy_network.value_vars)
ValuePairs(c) ==
    LET t == target_network(c).value_vars
        p == policy_network(c).value_vars
    IN  [k \in 1..Min2(Len(t), Len(p)) |-> [target |-> t[k], source |-> p[k]]]

\* ------------------------------------------------------------------------
\* State of a training session
\* ------------------------------------------------------------------------
VARIABLES
    cfg,        \* constructor arguments the graph was built from
    graph,      \* the variable groups and assign pairs recorded at construction
    tau,        \* self.tau
    vals,       \* value of every trainable variable
    norm,       \* running_mean, running_variance, normalization_steps per network
    pc,         \* "idle", or "running" while a session run executes its ops
    fetches,    \* the operations the current run was asked for
    done,       \* graph ops the current run has executed
    delta,      \* the step the fed batch produces in this run
    pre,        \* vals and norm when the current run started
    hist,       \* fetches of the completed runs, oldest first
    batch,      \* a training batch fed to the losses
    losses      \* the losses evaluated on batch

vars == <<cfg, graph, tau, vals, norm, pc, fetches, done, delta, pre, hist, batch, losses>>

trainVars == <<cfg, graph, tau, vals, norm, pc, fetches, done, delta, pre, hist>>

Stats == <<"running_mean", "running_variance", "normalization_steps">>

\* the steps a fed batch can produce
Deltas == {Q(2), Q(-1)}
JointDeltas == {Q(1)}

Fetchables(c) ==
    {"update_batch_policy", "update_batch_value", "update_batch_entropy",
     "target_update_op", "target_init_op"}
        \cup (IF c.normalize THEN {"update_normalization"} ELSE {})

\* the fetch lists of a session that asks for one update operation per run
FetchSets(c) == {{f} : f \in Fetchables(c) \ {"update_normalization"}}

\* the fetch lists of a session that also asks for grouped operations
JointFetchSets(c) ==
    {{"update_batch_value"}, {"target_update_op"},
     {"update_batch_value", "target_update_op"}}
        \cup (IF c.normalize THEN {{"update_normalization"}} ELSE {})

\* runs that feed no batch take no step
Feeds(F, D) ==
    IF F \subseteq {"target_update_op", "target_init_op"} THEN {Zero} ELSE D

\* what SACModel.__init__ and create_sac_optimizers record of the built graph
SACModel(c) ==
    [policy_vars |-> policy_network(c).policy_vars,
     critic_vars |-> policy_network(c).critic_vars,
     q_vars |-> policy_network(c).q_vars,
     value_vars |-> policy_network(c).value_vars,
     target_value_vars |-> target_network(c).value_vars,
     target_critic_vars |-> target_network(c).critic_vars,
     trainable |-> Trainable(c),
     pairs |-> ValuePairs(c)]

\* graph ops behind each fetchable operation
OpsOf(f, g) ==
    CASE f = "target_update_op" -> {<<f, k>> : k \in DOMAIN g.pairs}
      [] f = "target_init_op" -> {<<f, k>> : k \in DOMAIN g.pairs}
      [] f = "update_normalization" ->
            {<<"policy_update_normalization", 0>>}
                \cup {<<"copy_normalization", i>> : i \in DOMAIN Stats}
      [] OTHER -> {<<f, 0>>}

ControlInputsNone(op) == {}

\* ops that must have finished before op may start (tf.control_dependencies)
ControlInputs(op) ==
    CASE op[1] = "update_batch_value" -> {<<"update_batch_policy", 0>>}
      [] op[1] = "update_batch_entropy" ->
            {<<"update_batch_policy", 0>>, <<"update_batch_value", 0>>}
      [] OTHER -> {}

\* every op a run of fetch list F executes
Needed(F, g) ==
    LET direct == UNION {OpsOf(f, g) : f \in F}
    IN  direct \cup UNION {ControlInputs(op) : op \in direct}

Ready(op) ==
    /\ pc = "running"
    /\ op \in Needed(fetches, graph) \ done
    /\ ControlInputs(op) \subseteq done

InitVals(c) ==
    LET coll == Trainable(c)
    IN  [n \in Range(coll) |-> Q(CHOOSE i \in 1..Len(coll) : coll[i] = n)]

InitNorm == [net \in {"policy", "target"} |-> <<Zero, One, One>>]

NoBatch == [B |-> 0]

Init ==
    /\ cfg \in Configs
    /\ graph = SACModel(cfg)
    /\ tau \in Taus
    /\ vals = InitVals(cfg)
    /\ norm = InitNorm
    /\ pc = "idle"
    /\ fetches = {}
    /\ done = {}
    /\ delta = Zero
    /\ pre = [vals |-> vals, norm |-> norm]
    /\ hist = <<>>
    /\ batch = NoBatch
    /\ losses = NoBatch

\* sess.run(F, feed_dict)
SessionRun(F, d, max_runs) ==
    /\ pc = "idle"
    /\ Len(hist) < max_runs
    /\ pc' = "running"
    /\ fetches' = F
    /\ done' = {}
    /\ delta' = d
    /\ pre' = [vals |-> vals, norm |-> norm]
    /\ UNCHANGED <<cfg, graph, tau, vals, norm, hist, batch, losses>>

Return ==
    /\ pc = "running"
    /\ done = Needed(fetches, graph)
    /\ pc' = "idle"
    /\ hist' = Append(hist, fetches)
    /\ UNCHANGED <<cfg, graph, tau, vals, norm, fetches, done, delta, pre, batch, losses>>

\* optimizer.minimize(loss, var_list): every listed variable takes a step
Minimize(op, var_list) ==
    /\ Ready(op)
    /\ vals' = [n \in DOMAIN vals |->
                  IF n \in Range(var_list) THEN RAdd(vals[n], delta) ELSE vals[n]]
    /\ done' = done \cup {op}
    /\ UNCHANGED <<cfg, graph, tau, norm, pc, fetches, delta, pre, hist, batch, losses>>

update_batch_policy ==
    Minimize(<<"update_batch_policy", 0>>, graph.policy_vars)

update_batch_value ==
    Minimize(<<"update_batch_value", 0>>, graph.critic_vars)

update_batch_entropy ==
    Minimize(<<"update_batch_entropy", 0>>, <<log_ent_coef>>)

PolyakOvershoot(t, target, source) ==
    RAdd(target, RMul(RAdd(One, t), RSub(source, target)))

PolyakSwapped(t, target, source) ==
    RAdd(RMul(t, target), RMul(RSub(One, t), source))

\* tf.assign(target, (1 - self.tau) * target + self.tau * source)
Polyak(t, target, source) ==
    RAdd(RMul(RSub(One, t), target), RMul(t, source))

target_update_op(k) ==
    LET pr == graph.pairs[k] IN
    /\ Ready(<<"target_update_op", k>>)
    /\ vals' = [vals EXCEPT ![pr.target] = Polyak(tau, vals[pr.target], vals[pr.source])]
    /\ done' = done \cup {<<"target_update_op", k>>}
    /\ UNCHANGED <<cfg, graph, tau, norm, pc, fetches, delta, pre, hist, batch, losses>>

HardCopyKept(target, source) == target

\* tf.assign(target, source)
HardCopy(target, source) == source

target_init_op(k) ==
    LET pr == graph.pairs[k] IN
    /\ Ready(<<"target_init_op", k>>)
    /\ vals' = [vals EXCEPT ![pr.target] = HardCopy(vals[pr.target], vals[pr.source])]
    /\ done' = done \cup {<<"target_init_op", k>>}
    /\ UNCHANGED <<cfg, graph, tau, norm, pc, fetches, delta, pre, hist, batch, losses>>

\* the policy network's own statistics update from the fed observations
NewStats(old, d) == <<RAdd(old[1], d), RAdd(old[2], RSq(d)), RAdd(old[3], One)>>

policy_update_normalization ==
    /\ Ready(<<"policy_update_normalization", 0>>)
    /\ norm' = [norm EXCEPT !["policy"] = NewStats(norm["policy"], delta)]
    /\ done' = done \cup {<<"policy_update_normalization", 0>>}
    /\ UNCHANGED <<cfg, graph, tau, vals, pc, fetches, delta, pre, hist, batch, losses>>

\* SACNetwork.copy_normalization: tf.assign(self.<stat>, <policy stat>)
copy_normalization(i) ==
    /\ Ready(<<"copy_normalization", i>>)
    /\ norm' = [norm EXCEPT !["target"][i] = norm["policy"][i]]
    /\ done' = done \cup {<<"copy_normalization", i>>}
    /\ UNCHANGED <<cfg, graph, tau, vals, pc, fetches, delta, pre, hist, batch, losses>>

Next ==
    \/ \E F \in FetchSets(cfg) : \E d \in Feeds(F, Deltas) : SessionRun(F, d, MaxRuns)
    \/ update_batch_policy
    \/ update_batch_value
    \/ update_batch_entropy
    \/ \E k \in DOMAIN graph.pairs : target_update_op(k)
    \/ \E k \in DOMAIN graph.pairs : target_init_op(k)
    \/ Return

\* sessions of runs that ask for one update operation each
Spec == Init /\ [][Next]_vars

NextJoint ==
    \/ \E F \in JointFetchSets(cfg) : \E d \in Feeds(F, JointDeltas) :
          SessionRun(F, d, MaxJointRuns)
    \/ update_batch_policy
    \/ update_batch_value
    \/ \E k \in DOMAIN graph.pairs : target_update_op(k)
    \/ policy_update_normalization
    \/ \E i \in DOMAIN Stats : copy_normalization(i)
    \/ Return

\* sessions whose runs may ask for grouped operations (update_normalization)
\* or for several operations at once
SpecJoint == Init /\ [][NextJoint]_vars

\* ------------------------------------------------------------------------
\* Tensors: [shape, at], at maps every index tuple of shape to an element.
\* Element-wise operations broadcast as TensorFlow / numpy do.
\* ------------------------------------------------------------------------
RECURSIVE Indices(_)
Indices(shape) ==
    IF shape = <<>> THEN {<<>>}
    ELSE {<<i>> \o r : i \in 1..Head(shape), r \in Indices(Tail(shape))}

Scalar(x) == [shape |-> <<>>, at |-> [idx \in {<<>>} |-> x]]

\* a rank-1 tensor from a sequence of elements
Vec(s) ==
    LET F(x) == [shape |-> <<Len(x)>>, at |-> [idx \in Indices(<<Len(x)>>) |-> x[idx[1]]]]
    IN  Eval1(F, s)

\* a rank-2 tensor from a sequence of rows
Mat(rows, w) ==
    LET F(x, y) == [shape |-> <<Len(x), y>>,
                    at |-> [idx \in Indices(<<Len(x), y>>) |-> x[idx[1]][idx[2]]]]
    IN  Eval2(F, rows, w)

Max2(a, b) == IF a > b THEN a ELSE b

Pad(shape, r) ==
    [k \in 1..r |-> IF k <= r - Len(shape) THEN 1 ELSE shape[k - (r - Len(shape))]]

BroadcastShape(sa, sb) ==
    LET r == Max2(Len(sa), Len(sb))
        pa == Pad(sa, r)
        pb == Pad(sb, r)
    IN  [k \in 1..r |-> IF pa[k] = 1 THEN pb[k] ELSE pa[k]]

\* the element of t that index idx of the broadcast result reads
Pick(t, idx) ==
    LET off == Len(idx) - Len(t.shape)
    IN  t.at[[k \in 1..Len(t.shape) |-> IF t.shape[k] = 1 THEN 1 ELSE idx[k + off]]]

Map2(Op(_, _), a, b) ==
    LET F(x, y) ==
            LET G(sh) == [shape |-> sh,
                          at |-> [idx \in Indices(sh) |-> Op(Pick(x, idx), Pick(y, idx))]]
            IN  Eval1(G, BroadcastShape(x.shape, y.shape))
    IN  Eval2(F, a, b)

Map1(Op(_), a) ==
    LET F(x) == [shape |-> x.shape, at |-> [idx \in DOMAIN x.at |-> Op(x.at[idx])]]
    IN  Eval1(F, a)

TAdd(a, b) == Map2(RAdd, a, b)
TSub(a, b) == Map2(RSub, a, b)
TMul(a, b) == Map2(RMul, a, b)
TMin(a, b) == Map2(RMin, a, b)
SqDiff(x, y) == RSq(RSub(x, y))
TSqDiff(a, b) == Map2(SqDiff, a, b)
TNeg(a) == Map1(RNeg, a)

RECURSIVE SetSum(_, _)
SetSum(S, f) ==
    LET F(T, g) ==
            IF T = {} THEN Zero
            ELSE LET H(x) == RAdd(g[x], SetSum(T \ {x}, g))
                 IN  Eval1(H, CHOOSE y \in T : TRUE)
    IN  Eval2(F, S, f)

\* tf.reduce_sum / tf.reduce_mean along one axis (axis counted from 1)
ReduceAxis(t, axis, keep_dims, mean) ==
    LET F(x) ==
            LET n == x.shape[axis]
                r == Len(x.shape)
                Src(idx, j) == [k \in 1..r |->
                                  IF k = axis THEN j
                                  ELSE IF keep_dims \/ k < axis THEN idx[k] ELSE idx[k - 1]]
                Total(idx) == RSum([j \in 1..n |-> x.at[Src(idx, j)]])
                G(sh) == [shape |-> sh,
                          at |-> [idx \in Indices(sh) |->
                                    IF mean THEN RDivInt(Total(idx), n) ELSE Total(idx)]]
            IN  Eval1(G, IF keep_dims THEN [x.shape EXCEPT ![axis] = 1]
                         ELSE [k \in 1..(r - 1) |->
                                 IF k < axis THEN x.shape[k] ELSE x.shape[k + 1]])
    IN  Eval1(F, t)

reduce_sum(t, axis, keep_dims) == ReduceAxis(t, axis, keep_dims, FALSE)
reduce_mean_axis(t, axis) == ReduceAxis(t, axis, FALSE, TRUE)

\* tf.reduce_mean(t): the mean of all elements, a scalar
reduce_mean(t) ==
    LET F(x) == RDivInt(SetSum(DOMAIN x.at, x.at), Cardinality(DOMAIN x.at))
    IN  Eval1(F, t)

\* tf.stack(list, axis): a new axis of length Len(list) at position axis
stack(ts, axis) ==
    LET F(xs) ==
            LET s0 == xs[1].shape
                r == Len(s0) + 1
                Inner(idx) == [k \in 1..(r - 1) |-> IF k < axis THEN idx[k] ELSE idx[k + 1]]
                G(sh) == [shape |-> sh,
                          at |-> [idx \in Indices(sh) |-> xs[idx[axis]].at[Inner(idx)]]]
            IN  Eval1(G, [k \in 1..r |-> IF k < axis THEN s0[k]
                                         ELSE IF k = axis THEN Len(xs) ELSE s0[k - 1]])
    IN  Eval1(F, ts)

\* tf.squeeze(t): drops every axis of length 1
squeeze(t) ==
    LET F(x) ==
            LET r == Len(x.shape)
                Kept(k) == x.shape[k] # 1
                G(keep) ==
                    LET Pos(k) == CHOOSE j \in 1..Len(keep) : keep[j] = k
                        Src(idx) == [k \in 1..r |-> IF x.shape[k] = 1 THEN 1 ELSE idx[Pos(k)]]
                        H(sh) == [shape |-> sh, at |-> [idx \in Indices(sh) |-> x.at[Src(idx)]]]
                    IN  Eval1(H, [k \in 1..Len(keep) |-> x.shape[keep[k]]])
            IN  Eval1(G, SelectSeq([k \in 1..r |-> k], Kept))
    IN  Eval1(F, t)

\* tf.squeeze(t, axis): drops the one named axis
squeeze_axis(t, axis) ==
    LET F(x) ==
            LET r == Len(x.shape)
                Src(idx) == [k \in 1..r |-> IF k < axis THEN idx[k]
                                            ELSE IF k = axis THEN 1 ELSE idx[k - 1]]
                G(sh) == [shape |-> sh, at |-> [idx \in Indices(sh) |-> x.at[Src(idx)]]]
            IN  Eval1(G, [k \in 1..(r - 1) |->
                            IF k < axis THEN x.shape[k] ELSE x.shape[k + 1]])
    IN  Eval1(F, t)

\* tf.expand_dims(t, axis=-1)
expand_dims(t) ==
    LET F(x) ==
            LET G(sh) == [shape |-> sh,
                          at |-> [idx \in Indices(sh) |-> x.at[SubSeq(idx, 1, Len(x.shape))]]]
            IN  Eval1(G, x.shape \o <<1>>)
    IN  Eval1(F, t)

\* t[:, lo:hi] with lo counted from 0 and hi excluded, as in Python
Columns(t, lo, hi) ==
    LET F(x) == [shape |-> <<x.shape[1], hi - lo>>,
                 at |-> [idx \in Indices(<<x.shape[1], hi - lo>>) |->
                           x.at[<<idx[1], idx[2] + lo>>]]]
    IN  Eval1(F, t)

\* ------------------------------------------------------------------------
\* SACModel.create_losses, evaluated on a fed batch b
\* ------------------------------------------------------------------------
\* tf.exp and np.log on the values the model uses
Exp(x) ==
    CASE x = Q(-1) -> <<1, 2>>
      [] x = Q(0) -> Q(1)
      [] x = Q(1) -> Q(2)

Log(n) ==
    CASE n = 1 -> Q(0)
      [] n = 2 -> <<7, 10>>
      [] n = 3 -> <<11, 10>>

RECURSIVE cumsum(_)
cumsum(s) ==
    IF s = <<>> THEN <<>>
    ELSE LET front == cumsum(SubSeq(s, 1, Len(s) - 1))
         IN  Append(front, (IF front = <<>> THEN 0 ELSE front[Len(front)]) + s[Len(s)])

apply_as_branches_sizes(concat_logits, act_size) ==
    LET F(x, action_idx) ==
            [i \in 1..Len(act_size) |-> Columns(x, action_idx[i], action_idx[i + 1])]
    IN  Eval2(F, concat_logits, <<0>> \o act_size)

apply_as_branches(concat_logits, act_size) ==
    LET F(x, action_idx) ==
            [i \in 1..Len(act_size) |-> Columns(x, action_idx[i], action_idx[i + 1])]
    IN  Eval2(F, concat_logits, <<0>> \o cumsum(act_size))

\* tf.reduce_mean(list of tensors, axis=0): the list is packed along a new axis 0
reduce_mean_list(ts) == reduce_mean_axis(stack(ts, 1), 1)

\* each branch reduced to one column, then averaged over the branches
BranchMean(t, act_size) ==
    LET F(broken) == reduce_mean_list([i \in DOMAIN broken |-> reduce_sum(broken[i], 2, TRUE)])
    IN  Eval1(F, apply_as_branches(t, act_size))

target_entropy(c) ==
    IF c.discrete
    THEN [i \in DOMAIN c.act_size |-> RMul(<<1, 10>>, Log(c.act_size[i]))]
    ELSE Q(-c.act_size[1])

min_policy_qs(b, k, c) ==
    IF c.discrete
    THEN TMin(BranchMean(TMul(b.q1_pheads[k], b.action_probs), c.act_size),
              BranchMean(TMul(b.q2_pheads[k], b.action_probs), c.act_size))
    ELSE TMin(b.q1_pheads[k], b.q2_pheads[k])

\* create_sac_value_head / create_q_heads: the mean of the per-stream heads
HeadMean(heads) == reduce_mean_list(heads)

q_backup_first_gamma(b, k, c) ==
    TAdd(expand_dims(b.rewards_holders[k]),
         TMul(TMul(TSub(Scalar(One), expand_dims(b.dones_holder)), Scalar(c.gammas[1])),
              HeadMean(b.target_value_heads)))

q_backup(b, k, c) ==
    TAdd(expand_dims(b.rewards_holders[k]),
         TMul(TMul(TSub(Scalar(One), expand_dims(b.dones_holder)), Scalar(c.gammas[k])),
              HeadMean(b.target_value_heads)))

q_stream(b, heads, k, c) ==
    IF c.discrete
    THEN BranchMean(TMul(b.external_action_in, heads[k]), c.act_size)
    ELSE heads[k]

\* 0.5 * tf.reduce_mean(tf.to_float(self.mask) * tf.squared_difference(x, y))
MaskedSquaredLoss(mask, x, y) == RMul(Half, reduce_mean(TMul(mask, TSqDiff(x, y))))

q_loss(b, heads, c) ==
    RMean([k \in DOMAIN c.stream_names |->
              MaskedSquaredLoss(b.mask, q_backup(b, k, c), q_stream(b, heads, k, c))])

ent_coef(b) == Map1(Exp, b.log_ent_coef)

Element(t, i) == Scalar(t.at[<<i>>])

broken_log_probs(b, c) == apply_as_branches(b.all_log_probs, c.act_size)

entropy_loss(b, c) ==
    IF c.discrete
    THEN LET F(blp, te) ==
                 LET broken_ent_sums ==
                         stack([i \in DOMAIN blp |->
                                  TAdd(reduce_sum(blp[i], 2, TRUE), Scalar(te[i]))], 2)
                 IN  RNeg(reduce_mean(
                         TMul(b.mask,
                              reduce_mean_axis(
                                  TMul(b.log_ent_coef, squeeze_axis(broken_ent_sums, 3)), 2))))
         IN  Eval2(F, broken_log_probs(b, c), target_entropy(c))
    ELSE RNeg(reduce_mean(
             TMul(TMul(b.log_ent_coef, b.mask),
                  reduce_sum(TAdd(b.all_log_probs, Scalar(target_entropy(c))), 2, TRUE))))

policy_loss_branch_sum(b, c) ==
    IF c.discrete
    THEN LET G(blp, broken_q_term) ==
                 LET F(ec) ==
                         LET broken_policy_loss ==
                                 stack([i \in DOMAIN blp |->
                                          reduce_sum(TSub(TMul(Element(ec, i), blp[i]),
                                                          broken_q_term[i]), 2, TRUE)], 1)
                         IN  reduce_mean(TMul(b.mask,
                                 squeeze_axis(reduce_sum(broken_policy_loss, 1, FALSE), 2)))
                 IN  Eval1(F, ent_coef(b))
         IN  Eval2(G, broken_log_probs(b, c),
                   apply_as_branches(TMul(b.action_probs, HeadMean(b.q1_pheads)), c.act_size))
    ELSE LET batch_policy_loss ==
                 reduce_mean_axis(TSub(TMul(ent_coef(b), b.all_log_probs),
                                       HeadMean(b.q1_pheads)), 2)
         IN  reduce_mean(TMul(b.mask, batch_policy_loss))

policy_loss(b, c) ==
    IF c.discrete
    THEN LET G(blp, broken_q_term) ==
                 LET F(ec) ==
                         LET broken_policy_loss ==
                                 stack([i \in DOMAIN blp |->
                                          reduce_sum(TSub(TMul(Element(ec, i), blp[i]),
                                                          broken_q_term[i]), 2, TRUE)], 1)
                         IN  reduce_mean(TMul(b.mask, squeeze(broken_policy_loss)))
                 IN  Eval1(F, ent_coef(b))
         IN  Eval2(G, broken_log_probs(b, c),
                   apply_as_branches(TMul(b.action_probs, HeadMean(b.q1_pheads)), c.act_size))
    ELSE LET batch_policy_loss ==
                 reduce_mean_axis(TSub(TMul(ent_coef(b), b.all_log_probs),
                                       HeadMean(b.q1_pheads)), 2)
         IN  reduce_mean(TMul(b.mask, batch_policy_loss))

v_backup(b, k, c) ==
    IF c.discrete
    THEN LET F(blp, ec) ==
                 LET broken_ent_bonus ==
                         stack([i \in DOMAIN blp |->
                                  reduce_sum(TMul(Element(ec, i), blp[i]), 2, TRUE)], 1)
                 IN  TSub(min_policy_qs(b, k, c), reduce_mean_axis(broken_ent_bonus, 1))
         IN  Eval2(F, broken_log_probs(b, c), ent_coef(b))
    ELSE TSub(min_policy_qs(b, k, c),
              reduce_sum(TMul(ent_coef(b), b.all_log_probs), 2, FALSE))

value_loss(b, c) ==
    RMean([k \in DOMAIN c.stream_names |->
              MaskedSquaredLoss(b.mask, b.value_heads[k], v_backup(b, k, c))])

create_losses(b, c) ==
    LET F(l) == [l EXCEPT !.total_value_loss =
                              RAdd(RAdd(l.q1_loss, l.q2_loss), l.value_loss)]
    IN  Eval1(F, [B |-> b.B,
                  q_backup |-> [k \in DOMAIN c.stream_names |-> q_backup(b, k, c)],
                  q1_loss |-> q_loss(b, b.q1_heads, c),
                  q2_loss |-> q_loss(b, b.q2_heads, c),
                  value_loss |-> value_loss(b, c),
                  policy_loss |-> policy_loss(b, c),
                  entropy_loss |-> entropy_loss(b, c),
                  total_value_loss |-> Zero])

\* ------------------------------------------------------------------------
\* Batches fed to the losses: the network outputs and the batch tensors of
\* one sample are drawn through three parameters r, dn, y of the sample
\* ------------------------------------------------------------------------
RowParams ==
    {rp \in [r : {0, 1}, dn : {0, 1}, y : {-1, 1}] : rp.y = IF rp.r = rp.dn THEN -1 ELSE 1}

Width(c) == IF c.discrete THEN IntSum(c.act_size) ELSE 1

OneHot(i, n) == [a \in 1..n |-> IF a = i THEN One ELSE Zero]

RowProbs(rp) ==
    IF rp.y = -1 THEN <<Half, Half, Half, <<1, 4>>, <<1, 4>> >>
    ELSE <<One, Zero, Zero, Half, Half>>

\* probability times log-probability of each action (logarithm to base 2)
RowLogProbs(rp, c) ==
    IF c.discrete
    THEN (IF rp.y = -1 THEN [a \in 1..5 |-> <<-1, 2>>]
          ELSE <<Zero, Zero, Zero, <<-1, 2>>, <<-1, 2>> >>)
    ELSE <<Q(rp.y)>>

RowQ1(rp, k, c) ==
    IF c.discrete THEN <<Q(2 * rp.r), Q(k), Q(rp.y), One, Q(2 * rp.r + rp.y)>>
    ELSE <<Q(2 * rp.r + k)>>

RowQ2(rp, k, c) ==
    IF c.discrete THEN <<Q(rp.y), Q(2 * rp.r), One, Q(k), Zero>>
    ELSE <<Q(rp.y)>>

\* the discrete Q heads do not take the action as input: evaluated "at the
\* policy's action" they are the same tensors (create_dc_critic, reuse=True)
RowQ1P(rp, k, c) == IF c.discrete THEN RowQ1(rp, k, c) ELSE <<Q(rp.y)>>
RowQ2P(rp, k, c) == IF c.discrete THEN RowQ2(rp, k, c) ELSE <<Q(2 * rp.r - 1)>>

RowAction(rp) == OneHot(1 + rp.dn, 2) \o OneHot(1 + rp.r + rp.dn, 3)

MakeBatch(mask, rows, lec, c) ==
    LET B == Len(rows)
        S == DOMAIN c.stream_names
        Col(F(_)) == Mat([i \in 1..B |-> <<F(rows[i])>>], 1)
        Wide(F(_)) == Mat([i \in 1..B |-> F(rows[i])], Width(c))
    IN  [B |-> B,
         mask |-> Vec([i \in 1..B |-> Q(mask[i])]),
         dones_holder |-> Vec([i \in 1..B |-> Q(rows[i].dn)]),
         rewards_holders |-> [k \in S |-> Vec([i \in 1..B |-> Q(rows[i].r + k - 1)])],
         target_value_heads |-> [k \in S |-> Mat([i \in 1..B |-> <<Q(rows[i].y + k)>>], 1)],
         value_heads |-> [k \in S |-> Mat([i \in 1..B |-> <<Q(2 * rows[i].r + rows[i].y)>>], 1)],
         q1_heads |-> [k \in S |-> Mat([i \in 1..B |-> RowQ1(rows[i], k, c)], Width(c))],
         q2_heads |-> [k \in S |-> Mat([i \in 1..B |-> RowQ2(rows[i], k, c)], Width(c))],
         q1_pheads |-> [k \in S |-> Mat([i \in 1..B |-> RowQ1P(rows[i], k, c)], Width(c))],
         q2_pheads |-> [k \in S |-> Mat([i \in 1..B |-> RowQ2P(rows[i], k, c)], Width(c))],
         all_log_probs |-> Mat([i \in 1..B |-> RowLogProbs(rows[i], c)], Width(c)),
         action_probs |-> Mat([i \in 1..B |-> RowProbs(rows[i])], 5),
         external_action_in |-> Mat([i \in 1..B |-> RowAction(rows[i])], 5),
         log_ent_coef |-> IF c.discrete THEN Vec(<<Q(lec), Q(-lec)>>) ELSE Scalar(Q(lec))]

Batches(c) ==
    UNION {{MakeBatch(m, rows, lec, c) :
              m \in [1..B -> {0, 1}], rows \in [1..B -> RowParams], lec \in {-1, 1}}
           : B \in 1..MaxBatch}

InitLoss ==
    /\ cfg \in LossConfigs
    /\ graph = SACModel(cfg)
    /\ tau = Half
    /\ vals = InitVals(cfg)
    /\ norm = InitNorm
    /\ pc = "idle"
    /\ fetches = {}
    /\ done = {}
    /\ delta = Zero
    /\ pre = [vals |-> vals, norm |-> norm]
    /\ hist = <<>>
    /\ batch \in Batches(cfg)
    /\ losses = NoBatch

\* sess.run of the loss tensors on the fed batch
EvaluateLosses ==
    /\ losses = NoBatch
    /\ batch # NoBatch
    /\ losses' = create_losses(batch, cfg)
    /\ UNCHANGED <<cfg, graph, tau, vals, norm, pc, fetches, done, delta, pre, hist, batch>>

NextLoss == EvaluateLosses

\* the losses as a function of the fed batch
SpecLoss == InitLoss /\ [][NextLoss]_vars

\* ------------------------------------------------------------------------
\* Roles of the variables, told from their names alone
\* ------------------------------------------------------------------------
TargetValueHead == {n \in DOMAIN vals : IsPrefix(<<"target_network", "critic", "value">>, n)}
PolicyValueHead == {n \in DOMAIN vals : IsPrefix(<<"policy_network", "critic", "value">>, n)}
CriticParams == {n \in DOMAIN vals : IsPrefix(<<"policy_network", "critic">>, n)}
ActorParams == {n \in DOMAIN vals : IsPrefix(<<"policy_network", "policy">>, n)}

\* the observation stream of the critic is stream 1 in the policy network
\* and stream 0 in the target network
StreamAlias(comp) == IF comp = "main_graph_1_encoder0" THEN "main_graph_0_encoder0" ELSE comp
Role(n) == [i \in 1..(Len(n) - 1) |-> StreamAlias(n[i + 1])]
Partners(n) == {m \in PolicyValueHead : Role(m) = Role(n)}
Partner(n) == CHOOSE m \in Partners(n) : TRUE

RunComplete(F) == pc = "idle" /\ hist # <<>> /\ hist[Len(hist)] = F
Stepped(n) == vals[n] = RAdd(pre.vals[n], delta)

\* C1: one soft update sets every target value-head parameter to
\* (1 - tau) * old target + tau * its paired policy value-head parameter;
\* tau = 0 leaves the target unchanged, tau = 1 makes it equal to the source.
SoftUpdateBlends ==
    RunComplete({"target_update_op"}) =>
        \A n \in TargetValueHead :
            /\ Cardinality(Partners(n)) = 1
            /\ RMul(Q(tau[2]), vals[n])
                 = RAdd(RMul(Q(tau[2] - tau[1]), pre.vals[n]),
                        RMul(Q(tau[1]), pre.vals[Partner(n)]))
            /\ tau = Zero => vals[n] = pre.vals[n]
            /\ tau = One => vals[n] = pre.vals[Partner(n)]

SoftUpdateBlendsWitness ==
    /\ RunComplete({"target_update_op"})
    /\ tau = Half
    /\ \A n \in TargetValueHead :
          vals[n] # pre.vals[n] /\ vals[n] # pre.vals[Partner(n)]

\* C2: one soft update changes the target value-head parameters and
\* nothing else: policy parameters, log_ent_coef and both networks'
\* normalization statistics keep their values.
SoftUpdateFrame ==
    RunComplete({"target_update_op"}) =>
        /\ norm = pre.norm
        /\ \A n \in DOMAIN vals \ TargetValueHead : vals[n] = pre.vals[n]

SoftUpdateFrameWitness ==
    /\ RunComplete({"target_update_op"})
    /\ \E n \in TargetValueHead : vals[n] # pre.vals[n]
    /\ norm["policy"] # InitNorm["policy"]

LastThree(a, b, c) ==
    /\ Len(hist) >= 3
    /\ SubSeq(hist, Len(hist) - 2, Len(hist)) = <<a, b, c>>

\* C3: hard init makes every target value-head parameter equal to its
\* paired policy parameter; so does hard init, soft update, hard init.
HardInitCopies ==
    /\ RunComplete({"target_init_op"}) =>
          \A n \in TargetValueHead : vals[n] = vals[Partner(n)]
    /\ (pc = "idle" /\ LastThree({"target_init_op"}, {"target_update_op"}, {"target_init_op"}))
          => \A n \in TargetValueHead : vals[n] = vals[Partner(n)]

HardInitCopiesWitness ==
    /\ pc = "idle"
    /\ tau # Zero
    /\ LastThree({"target_init_op"}, {"target_update_op"}, {"target_init_op"})
    /\ \A n \in TargetValueHead : vals[n] # InitVals(cfg)[n]

\* C4: in a run, a critic parameter is written only after every actor
\* parameter has taken its policy step, and log_ent_coef only after every
\* critic parameter has taken its value step; a run asked only for a later
\* step performs the earlier ones.
OptimizerStepsInSequence ==
    /\ (\E n \in CriticParams : vals[n] # pre.vals[n])
          => \A m \in ActorParams : Stepped(m)
    /\ vals[log_ent_coef] # pre.vals[log_ent_coef]
          => \A m \in CriticParams \cup ActorParams : Stepped(m)
    /\ RunComplete({"update_batch_value"})
          => \A m \in CriticParams \cup ActorParams : Stepped(m)

OptimizerStepsInSequenceWitness ==
    /\ RunComplete({"update_batch_entropy"})
    /\ \A m \in CriticParams \cup ActorParams \cup {log_ent_coef} :
          Stepped(m) /\ vals[m] # pre.vals[m]

\* C5: when a run asks for both update_batch_value and target_update_op,
\* no blend is performed before the value step has been applied.
SoftUpdateAfterValueStep ==
    (pc = "running" /\ {"update_batch_value", "target_update_op"} \subseteq fetches) =>
        \A k \in DOMAIN graph.pairs :
            <<"target_update_op", k>> \in done => <<"update_batch_value", 0>> \in done

Written == {n \in DOMAIN vals : vals'[n] # vals[n]}
Executed(kind) == \E op \in done' \ done : op[1] = kind

\* C6: every parameter has one update rule: policy_vars and critic_vars are
\* disjoint, actor parameters are written by the policy step only, critic
\* parameters by the value step only, log_ent_coef by the entropy step only,
\* target parameters by hard init and soft update only.
SingleWriterStep ==
    /\ Range(graph.policy_vars) \cap Range(graph.critic_vars) = {}
    /\ \A n \in Written :
          /\ n \in ActorParams => Executed("update_batch_policy")
          /\ n \in CriticParams => Executed("update_batch_value")
          /\ n = log_ent_coef => Executed("update_batch_entropy")
          /\ n[1] = "target_network" =>
                Executed("target_update_op") \/ Executed("target_init_op")

SingleWriter == [][SingleWriterStep]_vars

SingleWriterWitness ==
    /\ pc = "idle"
    /\ \A n \in DOMAIN vals : vals[n] # InitVals(cfg)[n]

\* C7: when an update_normalization run ends, the target network's running
\* mean, running variance and step counter equal the policy network's.
NormalizationMirrored ==
    RunComplete({"update_normalization"}) => norm["target"] = norm["policy"]

\* ------------------------------------------------------------------------
\* The losses sample by sample
\* ------------------------------------------------------------------------
Evaluated == losses # NoBatch
Streams == DOMAIN cfg.stream_names
Branches == DOMAIN cfg.act_size
BranchActions(br) ==
    LET lo == IntSum(SubSeq(cfg.act_size, 1, br - 1))
    IN  (lo + 1)..(lo + cfg.act_size[br])

SumOver(S, F(_)) == SetSum(S, [x \in S |-> F(x)])
MeanOver(S, F(_)) == RDivInt(SumOver(S, F), Cardinality(S))

SampleMask(i) == batch.mask.at[<<i>>]
SampleTargetValue(i) == MeanOver(Streams, LAMBDA j : batch.target_value_heads[j].at[<<i, 1>>])

SampleBackup(k, i) ==
    IF batch.dones_holder.at[<<i>>] = One
    THEN batch.rewards_holders[k].at[<<i>>]
    ELSE RAdd(batch.rewards_holders[k].at[<<i>>],
              RMul(cfg.gammas[k], SampleTargetValue(i)))

SampleEntCoef(br) ==
    IF cfg.discrete THEN Exp(batch.log_ent_coef.at[<<br>>]) ELSE Exp(batch.log_ent_coef.at[<<>>])

\* a Q head of sample i: at the taken action (weights = one-hot action) or
\* under the policy (weights = action probabilities)
SampleQ(heads, weights, k, i) ==
    IF cfg.discrete
    THEN MeanOver(Branches, LAMBDA br :
             SumOver(BranchActions(br), LAMBDA a :
                 RMul(weights.at[<<i, a>>], heads[k].at[<<i, a>>])))
    ELSE heads[k].at[<<i, 1>>]

SampleEntBonus(i) ==
    IF cfg.discrete
    THEN MeanOver(Branches, LAMBDA br :
             SumOver(BranchActions(br), LAMBDA a :
                 RMul(SampleEntCoef(br), batch.all_log_probs.at[<<i, a>>])))
    ELSE RMul(SampleEntCoef(1), batch.all_log_probs.at[<<i, 1>>])

QTerm(heads, i) ==
    MeanOver(Streams, LAMBDA k :
        RMul(Half, RSq(RSub(SampleBackup(k, i),
                            SampleQ(heads, batch.external_action_in, k, i)))))

ValueTerm(i) ==
    MeanOver(Streams, LAMBDA k :
        RMul(Half,
             RSq(RSub(batch.value_heads[k].at[<<i, 1>>],
                      RSub(RMin(SampleQ(batch.q1_pheads, batch.action_probs, k, i),
                                SampleQ(batch.q2_pheads, batch.action_probs, k, i)),
                           SampleEntBonus(i))))))

PolicyTerm(i) ==
    IF cfg.discrete
    THEN MeanOver(Branches, LAMBDA br :
             SumOver(BranchActions(br), LAMBDA a :
                 RSub(RMul(SampleEntCoef(br), batch.all_log_probs.at[<<i, a>>]),
                      RMul(batch.action_probs.at[<<i, a>>],
                           MeanOver(Streams, LAMBDA k : batch.q1_pheads[k].at[<<i, a>>])))))
    ELSE RSub(RMul(SampleEntCoef(1), batch.all_log_probs.at[<<i, 1>>]),
              MeanOver(Streams, LAMBDA k : batch.q1_pheads[k].at[<<i, 1>>]))

EntropyTerm(i) ==
    IF cfg.discrete
    THEN RNeg(MeanOver(Branches, LAMBDA br :
             RMul(batch.log_ent_coef.at[<<br>>],
                  RAdd(SumOver(BranchActions(br), LAMBDA a : batch.all_log_probs.at[<<i, a>>]),
                       RMul(<<1, 10>>, Log(cfg.act_size[br]))))))
    ELSE RNeg(RMul(batch.log_ent_coef.at[<<>>],
                   RAdd(batch.all_log_probs.at[<<i, 1>>], Q(-cfg.act_size[1]))))

LossNames == {"q1_loss", "q2_loss", "value_loss", "policy_loss", "entropy_loss"}

Term(L, i) ==
    CASE L = "q1_loss" -> QTerm(batch.q1_heads, i)
      [] L = "q2_loss" -> QTerm(batch.q2_heads, i)
      [] L = "value_loss" -> ValueTerm(i)
      [] L = "policy_loss" -> PolicyTerm(i)
      [] L = "entropy_loss" -> EntropyTerm(i)

Samples == 1..batch.B

\* C8: with an all-zero mask every masked loss is zero; with an all-one
\* mask it is the plain mean of its per-sample terms.
MaskBoundaries ==
    Evaluated =>
        \A L \in LossNames :
            /\ (\A i \in Samples : SampleMask(i) = Zero) => losses[L] = Zero
            /\ (\A i \in Samples : SampleMask(i) = One)
                  => losses[L] = MeanOver(Samples, LAMBDA i : Term(L, i))

\* C9: every masked loss is the sum over the batch positions of
\* mask[i] * term[i], term[i] made of sample i's data only, divided by the
\* batch size.
MaskedMeanPerSample ==
    Evaluated =>
        \A L \in LossNames :
            losses[L] = RDivInt(SumOver(Samples, LAMBDA i : RMul(SampleMask(i), Term(L, i))),
                                batch.B)

\* C10: the Q regression target of stream k is the stream's reward when
\* done = 1 and reward + gammas[k] * target-network value when done = 0.
QBackupPerStream ==
    Evaluated =>
        \A k \in Streams :
            /\ losses.q_backup[k].shape = <<batch.B, 1>>
            /\ \A i \in Samples : losses.q_backup[k].at[<<i, 1>>] = SampleBackup(k, i)

QBackupPerStreamWitness ==
    /\ Evaluated
    /\ Len(cfg.stream_names) = 2
    /\ \E i, j \in Samples :
          /\ batch.dones_holder.at[<<i>>] = One
          /\ batch.dones_holder.at[<<j>>] = Zero
          /\ SampleTargetValue(j) # Zero
          /\ losses.q_backup[2].at[<<i, 1>>] = batch.rewards_holders[2].at[<<i>>]
          /\ losses.q_backup[2].at[<<j, 1>>] # batch.rewards_holders[2].at[<<j>>]

\* ------------------------------------------------------------------------
\* apply_as_branches on its own: a concatenated per-action tensor of a
\* discrete action space is split into its branches
\* ------------------------------------------------------------------------
MaxBranches == 3
MaxBranchSize == 3

\* action-space descriptors with at least one branch of positive size
BranchSizes ==
    {s \in UNION {[1..n -> 0..MaxBranchSize] : n \in 1..MaxBranches} :
        \E i \in DOMAIN s : s[i] > 0}

\* a [B, sum(act_size)] tensor whose elements are all different
ConcatLogits(B, act_size) ==
    Mat([r \in 1..B |-> [j \in 1..IntSum(act_size) |-> Q(10 * r + j)]], IntSum(act_size))

InitBranches ==
    /\ \E s \in BranchSizes : cfg = [Config(TRUE, 0, 1) EXCEPT !.act_size = s]
    /\ graph = SACModel(cfg)
    /\ tau = Half
    /\ vals = InitVals(cfg)
    /\ norm = InitNorm
    /\ pc = "idle"
    /\ fetches = {}
    /\ done = {}
    /\ delta = Zero
    /\ pre = [vals |-> vals, norm |-> norm]
    /\ hist = <<>>
    /\ \E B \in 1..MaxBatch :
          batch = [B |-> B, concat_logits |-> ConcatLogits(B, cfg.act_size)]
    /\ losses = NoBatch

\* self.apply_as_branches(concat_logits)
SplitBranches ==
    /\ losses = NoBatch
    /\ losses' = [B |-> batch.B,
                  branches |-> apply_as_branches(batch.concat_logits, cfg.act_size)]
    /\ UNCHANGED <<cfg, graph, tau, vals, norm, pc, fetches, done, delta, pre, hist, batch>>

NextBranches == SplitBranches

SpecBranches == InitBranches /\ [][NextBranches]_vars

Split == losses # NoBatch

\* columns before branch i, and the columns branch i owns (counted from 1)
Offset(i) == IntSum(SubSeq(cfg.act_size, 1, i - 1))
BranchColumns(i) == (Offset(i) + 1)..(Offset(i) + cfg.act_size[i])

\* tf.concat(slices, axis=1), placing each slice after the widths before it
ConcatColumns(ts) ==
    LET Before(i) == IntSum([k \in 1..(i - 1) |-> ts[k].shape[2]])
        W == Before(Len(ts) + 1)
        Owner(j) == CHOOSE i \in 1..Len(ts) : Before(i) < j /\ j <= Before(i) + ts[i].shape[2]
    IN  [shape |-> <<batch.B, W>>,
         at |-> [idx \in Indices(<<batch.B, W>>) |->
                   ts[Owner(idx[2])].at[<<idx[1], idx[2] - Before(Owner(idx[2]))>>]]]

\* C11: apply_as_branches returns one slice per branch, slice i holding the
\* columns from the sum of the sizes before it up to that sum plus its own
\* size; the slices are disjoint, in branch order, cover the whole width
\* sum(act_size), and concatenated give back the tensor.
BranchesRoundTrip ==
    Split =>
        LET br == losses.branches
            n == Len(cfg.act_size)
        IN  /\ Len(br) = n
            /\ \A i \in 1..n :
                  /\ br[i].shape = <<batch.B, cfg.act_size[i]>>
                  /\ \A r \in 1..batch.B : \A j \in 1..cfg.act_size[i] :
                        br[i].at[<<r, j>>] = batch.concat_logits.at[<<r, Offset(i) + j>>]
            /\ \A i, k \in 1..n : i < k =>
                  /\ BranchColumns(i) \cap BranchColumns(k) = {}
                  /\ \A a \in BranchColumns(i) : \A b \in BranchColumns(k) : a < b
            /\ UNION {BranchColumns(i) : i \in 1..n} = 1..IntSum(cfg.act_size)
            /\ batch.concat_logits.shape[2] = IntSum(cfg.act_size)
            /\ ConcatColumns(br) = batch.concat_logits
            /\ cfg.act_size = <<2, 3>> =>
                  BranchColumns(1) = {1, 2} /\ BranchColumns(2) = {3, 4, 5}

BranchesRoundTripWitness ==
    /\ Split
    /\ cfg.act_size = <<2, 3>>
    /\ batch.B = 2
    /\ Len(losses.branches) = 2
    /\ losses.branches[1].shape = <<2, 2>>
    /\ losses.branches[2].shape = <<2, 3>>
    /\ losses.branches[2].at[<<2, 1>>] = batch.concat_logits.at[<<2, 3>>]

\* ------------------------------------------------------------------------
\* The discrete policy loss over action spaces of any number of branches
\* ------------------------------------------------------------------------
\* descriptors of 1..MaxBranches branches with 2 or 3 actions each
PolicyBranchSizes == UNION {[1..n -> {2, 3}] : n \in 1..MaxBranches}

BranchOf(j, act_size) ==
    CHOOSE br \in DOMAIN act_size :
        /\ IntSum(SubSeq(act_size, 1, br - 1)) < j
        /\ j <= IntSum(SubSeq(act_size, 1, br))

PlaceOf(j, act_size) == j - IntSum(SubSeq(act_size, 1, BranchOf(j, act_size) - 1))

\* a branch's policy is deterministic or spread over its actions; copies
\* makes every branch of a sample the same
Deterministic(rp, br, copies) == IF copies THEN rp.y = 1 ELSE (rp.y = 1) = (br % 2 = 1)

\* softmax output of a branch
ActionProb(size, a, det) ==
    IF det THEN (IF a = 1 THEN One ELSE Zero)
    ELSE IF size = 2 \/ a = 1 THEN Half ELSE <<1, 4>>

\* probability times log-probability (logarithm to base 2)
ActionLogProb(size, a, det) == IF det THEN Zero ELSE <<-1, 2>>

ActionQ(rp, br, a, copies) == Q(rp.r + a - (IF copies THEN 0 ELSE br))

PolicyBatch(mask, rows, lec, copies, c) ==
    LET B == Len(rows)
        W == IntSum(c.act_size)
        Br(j) == BranchOf(j, c.act_size)
        Pl(j) == PlaceOf(j, c.act_size)
        Det(i, j) == Deterministic(rows[i], Br(j), copies)
    IN  [B |-> B,
         mask |-> Vec([i \in 1..B |-> Q(mask[i])]),
         q1_pheads |-> << Mat([i \in 1..B |->
                                [j \in 1..W |-> ActionQ(rows[i], Br(j), Pl(j), copies)]], W) >>,
         all_log_probs |-> Mat([i \in 1..B |->
                                [j \in 1..W |-> ActionLogProb(c.act_size[Br(j)], Pl(j), Det(i, j))]], W),
         action_probs |-> Mat([i \in 1..B |->
                                [j \in 1..W |-> ActionProb(c.act_size[Br(j)], Pl(j), Det(i, j))]], W),
         log_ent_coef |-> Vec([br \in DOMAIN c.act_size |->
                                 IF copies \/ br % 2 = 1 THEN Q(lec) ELSE Q(-lec)])]

PolicyRows == {rp \in RowParams : rp.dn = 0}

PolicyBatches(c) ==
    UNION {{PolicyBatch(m, rows, lec, copies, c) :
              m \in [1..B -> {0, 1}], rows \in [1..B -> PolicyRows],
              lec \in {-1, 1}, copies \in BOOLEAN}
           : B \in 1..MaxBatch}

InitPolicyLoss ==
    /\ \E s \in PolicyBranchSizes : cfg = [Config(TRUE, 0, 1) EXCEPT !.act_size = s]
    /\ graph = SACModel(cfg)
    /\ tau = Half
    /\ vals = InitVals(cfg)
    /\ norm = InitNorm
    /\ pc = "idle"
    /\ fetches = {}
    /\ done = {}
    /\ delta = Zero
    /\ pre = [vals |-> vals, norm |-> norm]
    /\ hist = <<>>
    /\ batch \in PolicyBatches(cfg)
    /\ losses = NoBatch

\* sess.run(self.policy_loss) on the fed batch
EvaluatePolicyLoss ==
    /\ losses = NoBatch
    /\ losses' = [B |-> batch.B, policy_loss |-> policy_loss(batch, cfg)]
    /\ UNCHANGED <<cfg, graph, tau, vals, norm, pc, fetches, done, delta, pre, hist, batch>>

NextPolicyLoss == EvaluatePolicyLoss

SpecPolicyLoss == InitPolicyLoss /\ [][NextPolicyLoss]_vars

\* the branch-level scalar of sample i: the sum over the branch's actions of
\* ent_coef[branch] * weighted log-prob - prob-weighted Q1
BranchScalar(i, br) ==
    SumOver(BranchActions(br), LAMBDA a :
        RSub(RMul(Exp(batch.log_ent_coef.at[<<br>>]), batch.all_log_probs.at[<<i, a>>]),
             RMul(batch.action_probs.at[<<i, a>>],
                  MeanOver(Streams, LAMBDA k : batch.q1_pheads[k].at[<<i, a>>]))))

\* every branch of the fed batch is a copy of the first one
BranchCopies ==
    /\ \A br \in Branches : cfg.act_size[br] = cfg.act_size[1]
    /\ \A br \in Branches : batch.log_ent_coef.at[<<br>>] = batch.log_ent_coef.at[<<1>>]
    /\ \A i \in Samples : \A br \in Branches : \A a \in 1..cfg.act_size[1] :
          LET j == (br - 1) * cfg.act_size[1] + a
          IN  /\ batch.all_log_probs.at[<<i, j>>] = batch.all_log_probs.at[<<i, a>>]
              /\ batch.action_probs.at[<<i, j>>] = batch.action_probs.at[<<i, a>>]
              /\ batch.q1_pheads[1].at[<<i, j>>] = batch.q1_pheads[1].at[<<i, a>>]

\* the fed batch cut down to its first branch
FirstBranch ==
    [batch EXCEPT !.q1_pheads = << Columns(batch.q1_pheads[1], 0, cfg.act_size[1]) >>,
                  !.all_log_probs = Columns(batch.all_log_probs, 0, cfg.act_size[1]),
                  !.action_probs = Columns(batch.action_probs, 0, cfg.act_size[1]),
                  !.log_ent_coef = Vec(<<batch.log_ent_coef.at[<<1>>]>>)]

\* C12: the discrete policy loss is the mask-weighted batch mean of the
\* per-sample mean (not sum) over branches of the branch-level scalars; an
\* action space made of copies of one branch has the loss of that branch.
DiscretePolicyLossBranchMean ==
    Evaluated =>
        /\ losses.policy_loss
             = RDivInt(SumOver(Samples, LAMBDA i :
                           RMul(SampleMask(i),
                                MeanOver(Branches, LAMBDA br : BranchScalar(i, br)))),
                       batch.B)
        /\ BranchCopies =>
              losses.policy_loss
                 = policy_loss(FirstBranch, [cfg EXCEPT !.act_size = <<cfg.act_size[1]>>])

DiscretePolicyLossBranchMeanWitness ==
    /\ Evaluated
    /\ Len(cfg.act_size) = 3
    /\ batch.B = 1
    /\ BranchCopies
    /\ losses.policy_loss # Zero
    /\ losses.policy_loss = BranchScalar(1, 1)

\* ------------------------------------------------------------------------
\* Parameter groups recorded at construction
\* ------------------------------------------------------------------------
Under(scope) == {n \in Range(graph.trainable) : IsPrefix(scope, n)}

\* C13: value_vars is exactly critic/value, q_vars exactly critic/q with no
\* value-head parameter, policy_vars exactly the actor, critic_vars the
\* union of value_vars and q_vars; the target network's groups hold no
\* actor and no Q-head parameter.
ParameterGroupsExact ==
    /\ Range(graph.value_vars) = Under(<<"policy_network", "critic", "value">>)
    /\ Range(graph.q_vars) = Under(<<"policy_network", "critic", "q">>)
    /\ Range(graph.q_vars) \cap Range(graph.value_vars) = {}
    /\ Range(graph.policy_vars) = Under(<<"policy_network", "policy">>)
    /\ Range(graph.critic_vars) = Range(graph.value_vars) \cup Range(graph.q_vars)
    /\ LET t == target_network(cfg)
           groups == Range(t.value_vars) \cup Range(t.critic_vars)
                        \cup Range(t.q_vars) \cup Range(t.policy_vars)
       IN  /\ Range(graph.target_value_vars) \cup Range(graph.target_critic_vars) \subseteq groups
           /\ groups \cap Under(<<"target_network", "policy">>) = {}
           /\ groups \cap Under(<<"target_network", "critic", "q">>) = {}
           /\ groups \subseteq Under(<<"target_network">>)

\* ------------------------------------------------------------------------
\* Entropy-coefficient steps: sess.run(update_batch_entropy) on fed batches
\* ------------------------------------------------------------------------
MaxEntropySteps == 2

init_entcoef == 1

learning_rate == Half

\* np.log(init_entcoef), one entry per branch in the discrete build
InitEntCoef(c) ==
    IF c.discrete THEN Vec([br \in DOMAIN c.act_size |-> Log(init_entcoef)])
    ELSE Scalar(Log(init_entcoef))

EntropyConfigs == {Config(d, 0, 1) : d \in BOOLEAN}

EntropyRows == [y : {-1, 1}, k : {0, 1}]

\* the policy's log-probabilities of one sample
EntropyLogProbs(row, c) ==
    IF c.discrete
    THEN [j \in 1..IntSum(c.act_size) |->
            ActionLogProb(c.act_size[BranchOf(j, c.act_size)], PlaceOf(j, c.act_size),
                          Deterministic(row, BranchOf(j, c.act_size), row.k = 1))]
    ELSE <<Q(2 + row.y * (1 + 2 * row.k))>>

EntropyBatch(mask, rows, c) ==
    [B |-> Len(rows),
     mask |-> Vec([i \in 1..Len(rows) |-> Q(mask[i])]),
     all_log_probs |-> Mat([i \in 1..Len(rows) |-> EntropyLogProbs(rows[i], c)], Width(c))]

EntropyBatches(c) ==
    UNION {{EntropyBatch(m, rows, c) : m \in [1..B -> {0, 1}], rows \in [1..B -> EntropyRows]}
           : B \in 1..MaxBatch}

\* d entropy_loss / d log_ent_coef: the loss is linear in log_ent_coef (the
\* other factor is under stop_gradient), so the derivative in one entry is
\* the loss at the unit value of that entry
entropy_gradient(b, c) ==
    IF c.discrete
    THEN Vec([e \in DOMAIN c.act_size |->
                entropy_loss([b EXCEPT !.log_ent_coef = Vec(OneHot(e, Len(c.act_size)))], c)])
    ELSE Scalar(entropy_loss([b EXCEPT !.log_ent_coef = Scalar(One)], c))

RSign(a) == IF a[1] > 0 THEN One ELSE IF a[1] < 0 THEN RNeg(One) ELSE Zero

\* the optimizer moves each entry against the sign of its gradient
EntropyCoefAfter(lec, b, c) ==
    LET F(g) == TSub(lec, TMul(Scalar(learning_rate), Map1(RSign, g)))
    IN  Eval1(F, entropy_gradient(b @@ [log_ent_coef |-> lec], c))

InitEntropy ==
    /\ cfg \in EntropyConfigs
    /\ graph = SACModel(cfg)
    /\ tau = Half
    /\ vals = [InitVals(cfg) EXCEPT ![log_ent_coef] = InitEntCoef(cfg)]
    /\ norm = InitNorm
    /\ pc = "idle"
    /\ fetches = {}
    /\ done = {}
    /\ delta = Zero
    /\ pre = [vals |-> vals, norm |-> norm]
    /\ hist = <<>>
    /\ batch = NoBatch
    /\ losses = NoBatch

\* one run of update_batch_entropy on a fed batch: the policy step, the
\* value step and then the entropy step
EntropyStep ==
    \E b \in EntropyBatches(cfg) : \E d \in JointDeltas :
        /\ pc = "idle"
        /\ Len(hist) < MaxEntropySteps
        /\ batch' = b
        /\ delta' = d
        /\ pre' = [vals |-> vals, norm |-> norm]
        /\ vals' = [n \in DOMAIN vals |->
                      IF n = log_ent_coef THEN EntropyCoefAfter(vals[n], b, cfg)
                      ELSE IF n \in Range(graph.policy_vars) \cup Range(graph.critic_vars)
                      THEN RAdd(vals[n], d)
                      ELSE vals[n]]
        /\ hist' = Append(hist, {"update_batch_entropy"})
        /\ UNCHANGED <<cfg, graph, tau, norm, pc, fetches, done, losses>>

NextEntropy == EntropyStep

SpecEntropy == InitEntropy /\ [][NextEntropy]_vars

\* the entries of log_ent_coef, and log-probability + target entropy of
\* sample i for entry e
CoefEntries == DOMAIN vals[log_ent_coef].at
ValidSamples == {i \in Samples : SampleMask(i) = One}
EntropyGap(i, e) ==
    IF cfg.discrete
    THEN RAdd(SumOver(BranchActions(e[1]), LAMBDA a : batch.all_log_probs.at[<<i, a>>]),
              RMul(<<1, 10>>, Log(cfg.act_size[e[1]])))
    ELSE RAdd(batch.all_log_probs.at[<<i, 1>>], Q(-cfg.act_size[1]))

CoefMonotoneAt(e) ==
    LET new == vals[log_ent_coef].at[e]
        old == pre.vals[log_ent_coef].at[e]
    IN  /\ (\A i \in ValidSamples : RLess(Zero, EntropyGap(i, e))) => ~RLess(new, old)
        /\ (\A i \in ValidSamples : RLess(EntropyGap(i, e), Zero)) => ~RLess(old, new)
        /\ ValidSamples = {} => new = old

\* C14: an entropy step whose batch has log-probability + target entropy
\* positive on every valid sample never lowers log_ent_coef, one with it
\* negative on every valid sample never raises it, and a fully masked batch
\* leaves it unchanged.
EntropyCoefMonotone ==
    hist # <<>> => \A e \in CoefEntries : CoefMonotoneAt(e)

\* ------------------------------------------------------------------------
\* Construction: SACModel.__init__ on arbitrary constructor arguments
\* ------------------------------------------------------------------------
MaxMemory == 9

num_mems == 4

\* constructor arguments, valid and invalid: layer counts from -1, an empty
\* discrete descriptor, a zero-size continuous one, memory sizes that 4 does
\* and does not divide (0: not recurrent), and 1..3 discounts for 1..2 streams
ConstructArgs ==
    {[discrete |-> d, use_recurrent |-> m > 0, normalize |-> TRUE, num_vis |-> 0,
      num_layers |-> nl, m_size |-> m,
      stream_names |-> SubSeq(AllStreams, 1, ns),
      gammas |-> [k \in 1..ng |-> AllGammas[2 - (k % 2)]],
      act_size |-> IF d THEN (IF z THEN <<>> ELSE <<2, 3>>)
                   ELSE (IF z THEN <<0>> ELSE <<2>>)] :
        d \in BOOLEAN, z \in BOOLEAN, nl \in (-1)..num_layers,
        m \in {0} \cup 4..MaxMemory, ns \in 1..2, ng \in 1..3}

\* width of the memory a recurrent encoder returns for a memory input of
\* width w
recurrent_out_width(w) == w

\* SACNetwork.__init__, recurrent part: the sub-stream inputs are slices of
\* memory_in, the output is the concatenation of the sub-stream outputs
Memory(c) ==
    IF c.use_recurrent
    THEN LET mem_ins == [i \in 1..num_mems |->
                           [start |-> (c.m_size \div num_mems) * (i - 1),
                            end |-> (c.m_size \div num_mems) * i]]
         IN  [memory_in |-> c.m_size,
              memory_ins |-> [value |-> mem_ins[1], q1 |-> mem_ins[2],
                              q2 |-> mem_ins[3], policy |-> mem_ins[4]],
              mem_outs |-> <<"value", "q1", "q2", "policy">>,
              out_width |-> [i \in 1..num_mems |->
                               recurrent_out_width(mem_ins[i].end - mem_ins[i].start)],
              target_memory_in |-> c.m_size \div 4]
    ELSE [memory_in |-> 0]

\* the outcomes of SACModel.__init__(a): what was allocated and built when
\* it returned or raised
SACModelInit(a) ==
    LET c == [a EXCEPT !.num_layers = IF a.num_layers < 1 THEN 1 ELSE a.num_layers]
        net == "policy_network"
        Outcome(status, allocated, networks, built_losses) ==
            [status |-> status, num_layers |-> c.num_layers, allocated |-> allocated,
             networks |-> networks, losses |-> built_losses, memory |-> Memory(c)]
        \* the actor raises after its encoder is created: tf.concat of no
        \* branches, or a dense layer of 0 units
        actor_error ==
            Outcome("error",
                    ObservationStream(net, <<"policy">>, 0, c)
                        \o ObservationStream(net, <<"critic", "value">>, 1, c)
                        \o EncoderLayers(<<net, "policy">>, c.num_layers)
                        \o (IF c.discrete THEN <<>> ELSE RecurrentVars(<<net, "policy">>, c)),
                    {}, FALSE)
        \* create_losses raises on self.gammas[i] after both networks exist
        losses_error ==
            Outcome("error", target_network(c).coll,
                    {"policy_network", "target_network"}, FALSE)
        built ==
            Outcome("built", Trainable(c), {"policy_network", "target_network"}, TRUE)
    IN  IF c.discrete /\ c.act_size = <<>> THEN {actor_error}
        ELSE (IF ~c.discrete /\ c.act_size[1] = 0 THEN {actor_error} ELSE {})
                \cup {IF Len(c.gammas) < Len(c.stream_names) THEN losses_error ELSE built}

NotConstructed == [status |-> "none"]

InitConstruct ==
    /\ cfg \in ConstructArgs
    /\ graph = NotConstructed
    /\ tau = Half
    /\ vals = <<>>
    /\ norm = InitNorm
    /\ pc = "idle"
    /\ fetches = {}
    /\ done = {}
    /\ delta = Zero
    /\ pre = [vals |-> vals, norm |-> norm]
    /\ hist = <<>>
    /\ batch = NoBatch
    /\ losses = NoBatch

\* SACModel(brain, ...): returns the model or raises; the variables created
\* up to that point stay in the graph
Construct ==
    /\ graph = NotConstructed
    /\ graph' \in SACModelInit(cfg)
    /\ vals' = [n \in Range(graph'.allocated) |-> Zero]
    /\ UNCHANGED <<cfg, tau, norm, pc, fetches, done, delta, pre, hist, batch, losses>>

NextConstruct == Construct

SpecConstruct == InitConstruct /\ [][NextConstruct]_vars

Constructed == graph # NotConstructed
Rejected == graph.status = "error" /\ DOMAIN vals = {} /\ graph.networks = {}

\* C15: a non-positive hidden-layer count is rejected before any parameter
\* is allocated, and is not silently corrected.
NonPositiveLayersRejected ==
    (Constructed /\ cfg.num_layers < 1) => Rejected

\* C16: a descriptor with no discrete branch or a zero-size continuous
\* dimension is rejected without building a network or allocating a parameter.
InvalidActionSpaceRejected ==
    (Constructed /\ (cfg.act_size = <<>> \/ cfg.act_size = <<0>>)) => Rejected

\* the columns of memory_in no sub-stream reads
UnusedMemory ==
    (0..(cfg.m_size - 1))
        \ UNION {graph.memory.memory_ins[s].start..(graph.memory.memory_ins[s].end - 1) :
                   s \in {"value", "q1", "q2", "policy"}}

\* C17: with recurrence on, a memory size that 4 does not divide is rejected;
\* no network is built whose slices leave part of the memory unused.
IndivisibleMemoryRejected ==
    /\ (Constructed /\ cfg.use_recurrent /\ cfg.m_size % 4 # 0) => Rejected
    /\ (Constructed /\ cfg.use_recurrent /\ graph.networks # {}) => UnusedMemory = {}

\* C18: a different number of stream names and discounts, fewer or more, is
\* rejected before any parameter is allocated; the networks never exist
\* without the losses.
StreamDiscountMismatchRejected ==
    /\ (Constructed /\ Len(cfg.gammas) # Len(cfg.stream_names)) => Rejected
    /\ (Constructed /\ graph.networks # {}) => graph.losses


\* ------------------------------------------------------------------------
\* Repeated soft updates
\* ------------------------------------------------------------------------
RBetween(a, x, b) ==
    \/ ~RLess(x, a) /\ ~RLess(b, x)
    \/ ~RLess(x, b) /\ ~RLess(a, x)

RDistance(a, b) == IF RLess(a, b) THEN RSub(b, a) ELSE RSub(a, b)

OnlySoftUpdates == \A i \in 1..Len(hist) : hist[i] = {"target_update_op"}

\* C19: under soft updates with the source held fixed and tau in [0, 1],
\* every target parameter stays between its starting value and the source,
\* its distance to the source never increases, and once it equals the
\* source it stays equal.
SoftUpdateConverges ==
    /\ RBetween(Zero, tau, One)
    /\ RunComplete({"target_update_op"}) =>
          \A n \in TargetValueHead :
              /\ vals[Partner(n)] = pre.vals[Partner(n)]
              /\ RBetween(pre.vals[n], vals[n], vals[Partner(n)])
              /\ ~RLess(RDistance(pre.vals[n], vals[Partner(n)]),
                        RDistance(vals[n], vals[Partner(n)]))
              /\ pre.vals[n] = vals[Partner(n)] => vals[n] = vals[Partner(n)]
    /\ (pc = "idle" /\ OnlySoftUpdates) =>
          \A n \in TargetValueHead :
              /\ vals[Partner(n)] = InitVals(cfg)[Partner(n)]
              /\ RBetween(InitVals(cfg)[n], vals[n], vals[Partner(n)])
              /\ ~RLess(RDistance(InitVals(cfg)[n], vals[Partner(n)]),
                        RDistance(vals[n], vals[Partner(n)]))

SoftUpdateConvergesWitness ==
    /\ pc = "idle" /\ OnlySoftUpdates /\ Len(hist) >= 2
    /\ tau = Half
    /\ \E n \in TargetValueHead :
          /\ vals[n] # pre.vals[n]
          /\ pre.vals[n] # InitVals(cfg)[n]
          /\ vals[n] # vals[Partner(n)]

SoftUpdateFixedPointWitness ==
    /\ pc = "idle" /\ OnlySoftUpdates /\ Len(hist) >= 2
    /\ \E n \in TargetValueHead :
          /\ pre.vals[n] = vals[Partner(n)]
          /\ InitVals(cfg)[n] # vals[Partner(n)]


\* ------------------------------------------------------------------------
\* Recurrent memory layout
\* ------------------------------------------------------------------------
SubStreams == <<"value", "q1", "q2", "policy">>

\* the columns of memory_out that hold the i-th concatenated output
OutRange(i) ==
    LET before == IntSum([j \in 1..(i - 1) |-> graph.memory.out_width[j]])
    IN  [start |-> before, end |-> before + graph.memory.out_width[i]]

RecurrentBuilt == Constructed /\ cfg.use_recurrent /\ graph.networks # {}

MemoryInLayout ==
    LET mem == graph.memory
        in_range == [i \in 1..4 |-> mem.memory_ins[SubStreams[i]]]
    IN  /\ in_range[1].start = 0
        /\ \A i \in 1..3 : in_range[i + 1].start = in_range[i].end
        /\ \A i \in 1..4 : in_range[i].end - in_range[i].start = cfg.m_size \div 4
        /\ \A i \in 1..4 : in_range[i].start >= 0 /\ in_range[i].end <= mem.memory_in
        /\ \A i, j \in 1..4 :
              i < j => (in_range[i].start..(in_range[i].end - 1))
                          \cap (in_range[j].start..(in_range[j].end - 1)) = {}

MemoryOutLayout ==
    LET mem == graph.memory
    IN  /\ mem.mem_outs = SubStreams
        /\ \A i \in 1..4 : OutRange(i) = mem.memory_ins[mem.mem_outs[i]]

TargetMemoryLayout ==
    LET mem == graph.memory
    IN  /\ mem.target_memory_in = cfg.m_size \div 4
        /\ mem.target_memory_in = mem.memory_ins["value"].end - mem.memory_ins["value"].start

\* C20: with recurrence on and memory size m, the four sub-stream memory
\* inputs are contiguous disjoint column ranges of memory_in in the order
\* value, q1, q2, policy, each m // 4 wide; memory_out lists the outputs in
\* the same order and is as wide as memory_in; the target network's memory
\* is as wide as the policy network's value slice.
RecurrentMemoryLayout ==
    RecurrentBuilt =>
        /\ MemoryInLayout
        /\ MemoryOutLayout
        /\ OutRange(4).end = graph.memory.memory_in
        /\ TargetMemoryLayout
====
